---- MODULE Spec2Model ----
(***************************************************************************)
(* people-api: one `person` table with a self-referencing link table       *)
(* `person_contacts`, served by a REST surface (routes/people.js) and a    *)
(* GraphQL surface (graphql/resolvers.js) over one PostgreSQL store.       *)
(*                                                                         *)
(* The store is modelled at statement level under PostgreSQL's default     *)
(* READ COMMITTED isolation: committed tables, and for each request a      *)
(* transaction record holding its uncommitted writes and row locks.  A     *)
(* statement issued through db.query (no transaction) commits at once.     *)
(* Every `await` of a handler is one step, so requests interleave exactly  *)
(* where the Node event loop lets them.                                    *)
(*                                                                         *)
(* Columns: `name` stands for the NOT NULL text columns (name, surname),   *)
(* `email` is the NOT NULL UNIQUE column, created_at / updated_at are the  *)
(* timestamps.  Timestamps count microseconds; JavaScript Dates keep       *)
(* milliseconds.                                                           *)
(***************************************************************************)
EXTENDS Integers, Sequences, FiniteSets, TLC

\* ------------------------------------------------------------------ bounds
MaxIds == 2        \* person ids the store can hand out
MaxEmails == 2     \* distinct email values
MaxClock == 2      \* last clock value (microseconds)
UsPerMs == 2       \* microseconds per millisecond, scaled down
MaxContacts == 2   \* longest contact-id list of a request
MaxSeed == 2       \* persons already stored when the clients start
MaxOps == 2        \* writing requests served, one client
MaxMonth == 2      \* last month (getUTCMonth) of a date drawn
MaxDay == 2        \* last day of the month (getUTCDate) of a date drawn
FirstYear == 1900  \* earliest year of a date drawn

Procs == {1, 2}
Ids == 1..MaxIds
Ghost == 0         \* a well-formed uuid that no person ever had
Names == {"n1", "n2"}
Emails == 1..MaxEmails
ABSENT == 0        \* key not in the input object
NULLV == -1        \* key present with value null
NoArg == -2        \* limit / offset not given
MinAge == 0        \* years >= 0
MaxAge == 150      \* years <= 150
MinLimit == 1      \* querystring.limit.minimum
MaxLimit == 100    \* querystring.limit.maximum
MinOffset == 0     \* querystring.offset.minimum
DefaultLimit == 20
DefaultOffset == 0
Times == 0..MaxClock

\* ------------------------------------------------------------------ schema
\* create table person (...)
NoRow == [live |-> FALSE, name |-> "NULL", email |-> NULLV,
          created_at |-> 0, updated_at |-> 0]

NewRow(n, e, t) == [live |-> TRUE, name |-> n, email |-> e,
                    created_at |-> t, updated_at |-> t]

NoTx == [active |-> FALSE, start |-> 0, wset |-> {}, pw |-> [i \in Ids |-> NoRow],
         keyupd |-> {}, kshare |-> {}, ladd |-> {}, ldel |-> {}]

NoContacts == [kind |-> "absent", ids |-> <<>>]
NoReq == [surface |-> "none", op |-> "none", id |-> Ghost, name |-> "ABSENT",
          email |-> ABSENT, contacts |-> NoContacts, inm |-> -1]
NoLoc == [pid |-> Ghost, err |-> "", prow |-> NoRow, contacts |-> <<>>,
          page |-> <<>>, items |-> <<>>]
NoWait == [on |-> FALSE, at |-> 0, targets |-> {}]
NoResp == [status |-> "", body |-> <<>>, etag |-> -1]
NoDate == [y |-> NULLV, m |-> NULLV, d |-> NULLV]
NoYears == [kind |-> "unset", n |-> 0]
NoAge == [bday |-> NoDate, today |-> NoDate, rest |-> NoYears, gql |-> NoYears]

VARIABLES
  person,   \* committed person rows, by id
  links,    \* committed person_contacts rows: <<person_id, contact_id>>
  nextId,   \* next id uuid_generate_v4() hands out
  clock,    \* wall clock
  tx,       \* per request: its open transaction (uncommitted writes, locks)
  pc,       \* per request: the statement it awaits next
  req,      \* per request: the request being served
  loc,      \* per request: the handler's local variables
  wait,     \* per request: the statement it is blocked in, if any
  resp,     \* per request: the last response sent
  pre,      \* per request: the committed store when the request arrived
  rid,      \* per request: serial number of the request being served
  conc,     \* per request: serial numbers of the requests that overlapped it
  opsLeft,  \* requests still to be served
  age       \* a birthday, a current date and the age each surface derives

vars == <<person, links, nextId, clock, tx, pc, req, loc, wait, resp, pre,
          rid, conc, opsLeft, age>>

\* ------------------------------------------------------------ visibility
\* What a statement of p sees: committed rows overlaid with p's own writes.
VP(p) == [i \in Ids |-> IF i \in tx[p].wset THEN tx[p].pw[i] ELSE person[i]]
VL(p) == (links \ tx[p].ldel) \cup tx[p].ladd

Others(p) == Procs \ {p}

\* now(): the start of the current transaction; for a statement outside a
\* transaction, the time t the statement was issued.
Now(p, t) == IF tx[p].active THEN tx[p].start
             ELSE IF wait[p].on THEN wait[p].at ELSE t

\* The clock is read when a transaction or a statement starts; it may have
\* moved since it was last read.
ClockAt(p) == IF tx[p].active \/ wait[p].on THEN {clock} ELSE clock..MaxClock

Range(s) == {s[k] : k \in 1..Len(s)}

\* ------------------------------------------------------------- statements
\* The result of one SQL statement of request p: it went through ("ok", with
\* the transaction record it leaves and its row count n), it raised SQLSTATE
\* `code` ("err", no effect), or it has to wait for the transactions `who`.
Ok(t, n) == [kind |-> "ok", code |-> "", who |-> {}, tx |-> t, n |-> n]
Err(p, c) == [kind |-> "err", code |-> c, who |-> {}, tx |-> tx[p], n |-> 0]
Blocked(p, w) == [kind |-> "block", code |-> "", who |-> w, tx |-> tx[p], n |-> 0]

\* email text not null unique: the transactions whose uncommitted row versions
\* decide whether email e is free for row r.
\* Uniqueness decided from committed rows alone, never waiting for a writer.
EmailNeverWaits(p, r, e) == {}

EmailBlockers(p, r, e) ==
  {q \in Others(p) : \E j \in tx[q].wset \ {r} :
      \/ person[j].live /\ person[j].email = e
      \/ tx[q].pw[j].live /\ tx[q].pw[j].email = e}

\* person.email without its unique index.
EmailNeverTaken(p, r, e) == FALSE

EmailTaken(p, r, e) == \E j \in Ids \ {r} : VP(p)[j].live /\ VP(p)[j].email = e

\* insert into person (name,...,email) values (...) returning *
\* id defaults to uuid_generate_v4(); created_at, updated_at default to now().
SqlInsertPerson(p, n, e, t) ==
  IF n \notin Names \/ e \notin Emails THEN Err(p, "23502")
  ELSE IF EmailBlockers(p, nextId, e) # {} THEN Blocked(p, EmailBlockers(p, nextId, e))
  ELSE IF EmailTaken(p, nextId, e) THEN Err(p, "23505")
  ELSE Ok([tx[p] EXCEPT !.wset = @ \cup {nextId},
                        !.pw[nextId] = NewRow(n, e, Now(p, t))], 1)

\* update person set <present fields>, updated_at=now() where id=$n
\* The before-update trigger trg_person_updated locks the row first and sets
\* updated_at = now(); then NOT NULL, then the unique index on email.
\* The SET list built from every updatable column, given or not.
UpdatedRowAllColumns(old, n, e, t) ==
  [old EXCEPT !.name = n, !.email = e, !.updated_at = t]

\* The SET list built without the name column.
UpdatedRowNameDropped(old, n, e, t) ==
  [old EXCEPT !.email = IF e = ABSENT THEN @ ELSE e, !.updated_at = t]

UpdatedRow(old, n, e, t) ==
  [old EXCEPT !.name = IF n = "ABSENT" THEN @ ELSE n,
              !.email = IF e = ABSENT THEN @ ELSE e,
              !.updated_at = t]

SqlUpdatePerson(p, id, n, e, t) ==
  IF id \notin Ids \/ ~VP(p)[id].live THEN Ok(tx[p], 0)
  ELSE
    LET old == VP(p)[id]
        new == UpdatedRow(old, n, e, Now(p, t))
        rowLock == {q \in Others(p) : id \in tx[q].wset
                       \/ (e # ABSENT /\ id \in tx[q].kshare)}
    IN IF rowLock # {} THEN Blocked(p, rowLock)
       ELSE IF new.name = "NULL" \/ new.email = NULLV THEN Err(p, "23502")
       ELSE IF new.email # old.email /\ EmailBlockers(p, id, new.email) # {}
         THEN Blocked(p, EmailBlockers(p, id, new.email))
       ELSE IF new.email # old.email /\ EmailTaken(p, id, new.email)
         THEN Err(p, "23505")
       ELSE Ok([tx[p] EXCEPT !.wset = @ \cup {id},
                             !.pw[id] = new,
                             !.keyupd = IF e # ABSENT THEN @ \cup {id} ELSE @], 1)

\* delete from person_contacts where person_id=$1
\* The rows are those of the statement's snapshot; a row another transaction
\* is deleting is waited for.
LinkTargets(p, id) ==
  IF wait[p].on THEN wait[p].targets ELSE {x \in VL(p) : x[1] = id}

\* The replace without its delete statement.
SqlDeleteNoLinks(p, id) == Ok(tx[p], 0)

SqlDeleteLinks(p, id) ==
  LET targets == LinkTargets(p, id)
      who == {q \in Others(p) : targets \cap tx[q].ldel # {}}
  IN IF who # {} THEN Blocked(p, who)
     ELSE Ok([tx[p] EXCEPT !.ldel = @ \cup (targets \cap links),
                           !.ladd = @ \ targets], Cardinality(targets \cap VL(p)))

\* insert into person_contacts (person_id,contact_id) select $1, unnest($2::uuid[])
\* Row by row: check (person_id <> contact_id), then the primary key; the
\* foreign keys to person(id) are checked when the statement ends and take
\* FOR KEY SHARE locks on the rows referenced.
\* SQLSTATE 23505 is raised for person_email_key ("23505") and for
\* person_contacts_pkey ("23505_pk"); e.code is 23505 for both.
\* person_contacts without check (person_id <> contact_id).
RECURSIVE LinkScanUnchecked(_, _, _, _, _)
LinkScanUnchecked(p, id, s, k, added) ==
  IF k > Len(s) THEN Ok([tx[p] EXCEPT !.ladd = @ \cup added], Len(s))
  ELSE
    LET x == <<id, s[k]>>
        who == {q \in Others(p) : x \in tx[q].ladd \/ (x \in links /\ x \in tx[q].ldel)}
    IN IF x \in added THEN Err(p, "23505_pk")
       ELSE IF who # {} THEN Blocked(p, who)
       ELSE IF x \in VL(p) THEN Err(p, "23505_pk")
       ELSE LinkScanUnchecked(p, id, s, k + 1, added \cup {x})

RECURSIVE LinkScan(_, _, _, _, _)
LinkScan(p, id, s, k, added) ==
  IF k > Len(s) THEN Ok([tx[p] EXCEPT !.ladd = @ \cup added], Len(s))
  ELSE
    LET x == <<id, s[k]>>
        who == {q \in Others(p) : x \in tx[q].ladd \/ (x \in links /\ x \in tx[q].ldel)}
    IN IF id = s[k] THEN Err(p, "23514")
       ELSE IF x \in added THEN Err(p, "23505_pk")
       ELSE IF who # {} THEN Blocked(p, who)
       ELSE IF x \in VL(p) THEN Err(p, "23505_pk")
       ELSE LinkScan(p, id, s, k + 1, added \cup {x})

\* person_contacts without its references to person(id).
SqlInsertLinksUnreferenced(p, id, s) == LinkScan(p, id, s, 1, {})

SqlInsertLinks(p, id, s) ==
  LET r == LinkScan(p, id, s, 1, {})
      ends == {id} \cup Range(s)
      who == {q \in Others(p) : ends \cap tx[q].keyupd # {}}
  IN IF r.kind # "ok" \/ Len(s) = 0 THEN r
     ELSE IF who # {} THEN Blocked(p, who)
     ELSE IF \E i \in ends : i \notin Ids \/ ~VP(p)[i].live THEN Err(p, "23503")
     ELSE Ok([r.tx EXCEPT !.kshare = @ \cup ends], r.n)

\* delete from person where id=$1
\* person_contacts references person(id) on delete cascade, on both columns.
\* person_contacts references person(id) without on delete cascade, the
\* reference left unchecked.
SqlDeletePersonOnly(p, id) ==
  IF id \notin Ids \/ ~VP(p)[id].live THEN Ok(tx[p], 0)
  ELSE Ok([tx[p] EXCEPT !.wset = @ \cup {id}, !.pw[id] = NoRow], 1)

SqlDeletePerson(p, id) ==
  IF id \notin Ids \/ ~VP(p)[id].live THEN Ok(tx[p], 0)
  ELSE
    LET who == {q \in Others(p) :
                  \/ id \in tx[q].wset \cup tx[q].kshare
                  \/ \E x \in tx[q].ldel : id = x[1] \/ id = x[2]}
    IN IF who # {} THEN Blocked(p, who)
       ELSE Ok([tx[p] EXCEPT !.wset = @ \cup {id},
                             !.pw[id] = NoRow,
                             !.ldel = @ \cup {x \in links : id = x[1] \/ id = x[2]},
                             !.ladd = {x \in @ : id # x[1] /\ id # x[2]}], 1)

\* select * from person where id=$1
SelPerson(p, id) == IF id \in Ids THEN VP(p)[id] ELSE NoRow

\* select id from person where id = any($1::uuid[])  (rowCount)
ExistingCount(p, s) == Cardinality({i \in Range(s) \cap Ids : VP(p)[i].live})

\* select c.id, c.name, c.surname, c.email from person_contacts pc
\*   join person c on c.id=pc.contact_id where pc.person_id=$1 order by c.email asc
Summary(i, row) == [id |-> i, name |-> row.name, email |-> row.email]

RECURSIVE ByEmail(_, _)
ByEmail(S, rows) ==
  IF S = {} THEN <<>>
  ELSE LET m == CHOOSE i \in S : \A j \in S : rows[i].email <= rows[j].email
       IN <<Summary(m, rows[m])>> \o ByEmail(S \ {m}, rows)

ContactsIn(rows, ls, id) ==
  ByEmail({i \in Ids : <<id, i>> \in ls /\ rows[i].live}, rows)

ContactsOf(p, id) == ContactsIn(VP(p), VL(p), id)

\* new Date(...).getTime(): a timestamptz in whole milliseconds
GetTime(t) == t \div UsPerMs

\* select * from person order by email asc limit $1 offset $2
\* A negative limit or offset is refused by the store (2201W, 2201X).
RECURSIVE IdsByEmail(_, _)
IdsByEmail(S, rows) ==
  IF S = {} THEN <<>>
  ELSE LET m == CHOOSE i \in S : \A j \in S : rows[i].email <= rows[j].email
       IN <<m>> \o IdsByEmail(S \ {m}, rows)

PageError(l, o) == IF o < 0 THEN "2201X" ELSE IF l < 0 THEN "2201W" ELSE ""

\* The page without its offset: always the first rows.
PageRowsFromStart(rows, l, o) ==
  LET all == IdsByEmail({i \in Ids : rows[i].live}, rows)
      last == IF l < Len(all) THEN l ELSE Len(all)
  IN [k \in 1..last |-> [id |-> all[k], row |-> rows[all[k]]]]

PageRows(rows, l, o) ==
  LET all == IdsByEmail({i \in Ids : rows[i].live}, rows)
      last == IF o + l < Len(all) THEN o + l ELSE Len(all)
  IN [k \in 1..(IF last > o THEN last - o ELSE 0) |->
        [id |-> all[o + k], row |-> rows[all[o + k]]]]

\* select count(*)::int as count, max(updated_at) as maxu from person
CountRows(rows) == Cardinality({i \in Ids : rows[i].live})
\* The fingerprint seed without max(updated_at).
MaxUpdatedUnread(rows) == 0

\* maxu ? new Date(maxu).getTime() : 0
MaxUpdated(rows) ==
  LET S == {i \in Ids : rows[i].live}
  IN IF S = {} THEN 0
     ELSE GetTime(rows[CHOOSE i \in S :
                         \A j \in S : rows[j].updated_at <= rows[i].updated_at].updated_at)

\* ---------------------------------------------------------------- requests
Store(ps, ls) == [person |-> ps, links |-> ls]

KnownIds == {i \in Ids : person[i].live} \cup {Ghost}
ContactLists == UNION {[1..k -> KnownIds] : k \in 0..MaxContacts}
ContactInputs == {NoContacts, [kind |-> "null", ids |-> <<>>]}
                   \cup {[kind |-> "list", ids |-> s] : s \in ContactLists}
NameInputs == Names \cup {"ABSENT", "NULL"}
EmailInputs == Emails \cup {ABSENT, NULLV}
Surfaces == {"rest", "gql"}


CreateReqs ==
  {[surface |-> s, op |-> "create", id |-> Ghost, name |-> n, email |-> e,
    contacts |-> c, inm |-> -1] :
     s \in Surfaces, n \in NameInputs, e \in EmailInputs, c \in ContactInputs}
UpdateReqs ==
  {[surface |-> s, op |-> "update", id |-> i, name |-> n, email |-> e,
    contacts |-> c, inm |-> -1] :
     s \in Surfaces, i \in KnownIds, n \in NameInputs, e \in EmailInputs,
     c \in ContactInputs}
DeleteReqs ==
  {[surface |-> s, op |-> "delete", id |-> i, name |-> "ABSENT", email |-> ABSENT,
    contacts |-> NoContacts, inm |-> -1] : s \in Surfaces, i \in KnownIds}
GetReqs ==
  {[surface |-> "rest", op |-> "get", id |-> i, name |-> "ABSENT", email |-> ABSENT,
    contacts |-> NoContacts, inm |-> m] :
     i \in KnownIds, m \in {-1} \cup {GetTime(t) : t \in Times}}
  \cup
  {[surface |-> "gql", op |-> "get", id |-> i, name |-> "ABSENT", email |-> ABSENT,
    contacts |-> NoContacts, inm |-> -1] : i \in KnownIds}
Requests == CreateReqs \cup UpdateReqs \cup DeleteReqs \cup GetReqs

\* GET /people?limit=&offset= and Query.people(limit, offset): values at and
\* around the bounds of the querystring schema.
LimitInputs ==
  {NoArg, MinLimit - 2, MinLimit - 1, MinLimit, MaxIds, DefaultLimit,
   MaxLimit, MaxLimit + 1}
OffsetInputs == {NoArg, MinOffset - 1} \cup (MinOffset..(MinOffset + MaxIds))
\* const limit = req.query.limit ?? 20;  { limit = 20, offset = 0 }
LimitOf(r) == IF r.limit = NoArg THEN DefaultLimit ELSE r.limit
OffsetOf(r) == IF r.offset = NoArg THEN DefaultOffset ELSE r.offset
\* querystring: limit integer 1..100, offset integer >= 0, neither required
ValidQuery(r) ==
  /\ r.limit = NoArg \/ r.limit \in MinLimit..MaxLimit
  /\ r.offset = NoArg \/ r.offset >= MinOffset
\* `"list-${limit}-${offset}-${total}-${maxu}"`
ListETag(l, o, total, maxu) == <<l, o, total, maxu>>
ListReqs ==
  {[surface |-> s, op |-> "list", id |-> Ghost, name |-> "ABSENT",
    email |-> ABSENT, contacts |-> NoContacts, inm |-> -1,
    limit |-> l, offset |-> o, tag |-> <<>>] :
     s \in Surfaces, l \in LimitInputs, o \in OffsetInputs}
  \cup
  {[surface |-> "rest", op |-> "list", id |-> Ghost, name |-> "ABSENT",
    email |-> ABSENT, contacts |-> NoContacts, inm |-> -1,
    limit |-> NoArg, offset |-> NoArg,
    tag |-> ListETag(DefaultLimit, DefaultOffset, n, GetTime(t))] :
     n \in 0..MaxIds, t \in Times}

IsWrite(r) == r.op \in {"create", "update", "delete"}

\* "contacts" in input
HasContactsKey(r) == r.contacts.kind # "absent"
\* Array.isArray(b.contacts) && b.contacts.length  /  input.contacts?.length
HasContactItems(r) == r.contacts.kind = "list" /\ Len(r.contacts.ids) > 0
\* updates.length: some of the updatable fields is a key of the input
HasUpdates(r) == r.name # "ABSENT" \/ r.email # ABSENT

\* personSchema: name and email are strings (format email, minLength 1), both
\* required by POST and neither by PATCH; contacts is null or an array of
\* distinct uuids.
ValidBody(r) ==
  /\ r.name \in Names \/ (r.op = "update" /\ r.name = "ABSENT")
  /\ r.email \in Emails \/ (r.op = "update" /\ r.email = ABSENT)
  /\ Cardinality(Range(r.contacts.ids)) = Len(r.contacts.ids)

InFlight(q) == pc[q] \notin {"idle", "done", "off"}

\* The statement a request awaits first.
FirstPc(r) ==
  IF r.surface = "rest"
  THEN CASE r.op = "create" -> IF ValidBody(r) THEN "post_insert" ELSE "done"
         [] r.op = "update" -> IF ValidBody(r) THEN "patch_exists" ELSE "done"
         [] r.op = "delete" -> "del_person"
         [] r.op = "list" -> IF ValidQuery(r) THEN "rl_page" ELSE "done"
         [] OTHER -> "get_person"
  ELSE CASE r.op = "create" -> "gc_insert"
         [] r.op = "update" -> IF HasUpdates(r) THEN "gu_update"
                               ELSE IF HasContactsKey(r) THEN "gu_dellinks"
                               ELSE "gu_reselect"
         [] r.op = "delete" -> "gd_person"
         [] r.op = "list" -> "gl_page"
         [] OTHER -> "gq_person"

\* ------------------------------------------------------------- the machine
TypeOK ==
  /\ nextId \in 1..(MaxIds + 1)
  /\ clock \in Times
  /\ links \subseteq Ids \X Ids
  /\ \A i \in Ids : person[i].live \in BOOLEAN

\* The store after k POST /people calls served at time 0: person i was given
\* name n1 and email k + 1 - i, and either no contacts or, from the second
\* person on, the person created just before it.
SeedPerson(k) ==
  [i \in Ids |-> IF i <= k THEN NewRow("n1", k + 1 - i, 0) ELSE NoRow]

SeedLinks(k) == {{}, {<<i, i - 1>> : i \in 2..k}}

InitWith(active, budget, seeds) ==
  /\ \E k \in seeds :
       /\ person = SeedPerson(k)
       /\ nextId = k + 1
       /\ links \in SeedLinks(k)
  /\ clock = 0
  /\ tx = [p \in Procs |-> NoTx]
  /\ pc = [p \in Procs |-> IF p \in active THEN "idle" ELSE "off"]
  /\ req = [p \in Procs |-> NoReq]
  /\ loc = [p \in Procs |-> NoLoc]
  /\ wait = [p \in Procs |-> NoWait]
  /\ resp = [p \in Procs |-> NoResp]
  /\ pre = [p \in Procs |-> Store(person, links)]
  /\ rid = [p \in Procs |-> 0]
  /\ conc = [p \in Procs |-> {}]
  /\ opsLeft = budget

\* One client, its requests one after the other.
Init == InitWith({1}, MaxOps, 0..MaxSeed) /\ age = NoAge
\* Two clients at once.
ConcInit == InitWith(Procs, Cardinality(Procs), 0..MaxSeed) /\ age = NoAge

\* Frames.
Goto(p, l) == pc' = [pc EXCEPT ![p] = l]
Local(p, f, v) == loc' = [loc EXCEPT ![p][f] = v]
Fail(p, c, l) == /\ loc' = [loc EXCEPT ![p].err = c]
                 /\ pc' = [pc EXCEPT ![p] = l]
Respond(p, st, b, e) ==
  /\ pc' = [pc EXCEPT ![p] = "done"]
  /\ resp' = [resp EXCEPT ![p] = [status |-> st, body |-> b, etag |-> e]]
History == UNCHANGED <<req, pre, rid, conc, opsLeft, age>>

\* The effect of a statement result r of request p on the store: kept in p's
\* transaction if one is open, committed at once otherwise.  Rows p deleted
\* for good are no longer waited for by anyone.
CommitStore(p, t) ==
  /\ person' = [i \in Ids |-> IF i \in t.wset THEN t.pw[i] ELSE person[i]]
  /\ links' = (links \ t.ldel) \cup t.ladd
  /\ tx' = [tx EXCEPT ![p] = NoTx]
  /\ wait' = [q \in Procs |-> IF q = p THEN NoWait
                              ELSE [wait[q] EXCEPT !.targets = @ \ t.ldel]]

Apply(p, r) ==
  IF tx[p].active
  THEN /\ tx' = [tx EXCEPT ![p] = r.tx]
       /\ wait' = [wait EXCEPT ![p] = NoWait]
       /\ UNCHANGED <<person, links>>
  ELSE CommitStore(p, r.tx)

\* A request arrives.  A REST create or update whose body passes the schema
\* opens its transaction (client.query("begin")); one that does not is
\* answered 400 by the schema validator.
ArriveWith(p, r, cost) ==
  /\ pc[p] = "idle"
  /\ opsLeft >= cost
  /\ r.op = "create" =>
       nextId + Cardinality({q \in Procs : pc[q] \in {"post_insert", "gc_insert"}})
         <= MaxIds
  /\ req' = [req EXCEPT ![p] = r]
  /\ pc' = [pc EXCEPT ![p] = FirstPc(r)]
  /\ resp' = [resp EXCEPT ![p] =
                IF FirstPc(r) = "done"
                THEN [status |-> "400_schema", body |-> <<>>, etag |-> -1]
                ELSE NoResp]
  /\ IF FirstPc(r) \in {"post_insert", "patch_exists"}
     THEN \E t \in clock..MaxClock :
            /\ clock' = t
            /\ tx' = [tx EXCEPT ![p] = [NoTx EXCEPT !.active = TRUE, !.start = t]]
     ELSE UNCHANGED <<clock, tx>>
  /\ loc' = [loc EXCEPT ![p] = NoLoc]
  /\ pre' = [pre EXCEPT ![p] = Store(person, links)]
  /\ rid' = [rid EXCEPT ![p] = IF cost > 0 THEN opsLeft ELSE 0]
  /\ conc' = [q \in Procs |->
                IF q = p THEN {rid[o] : o \in {o \in Others(p) : InFlight(o)}} \ {0}
                ELSE IF InFlight(q) /\ IsWrite(r) THEN conc[q] \cup {opsLeft}
                ELSE conc[q]]
  /\ opsLeft' = opsLeft - cost
  /\ UNCHANGED <<person, links, nextId, wait, age>>

\* One client: reads are free, writes are counted.
Arrive(p) ==
  /\ pc[p] = "idle"
  /\ \E r \in Requests : ArriveWith(p, r, IF IsWrite(r) THEN 1 ELSE 0)

\* The requests two concurrent clients send: bodies that pass the schema,
\* about persons that exist when the request arrives; an update names at most
\* one scalar field and at most one contact, another person.
ConcRequests ==
  {r \in Requests :
     /\ r.op \in {"create", "update"} => ValidBody(r)
     /\ r.op # "create" => r.id # Ghost
     /\ Range(r.contacts.ids) \cap {Ghost, r.id} = {}
     /\ Len(r.contacts.ids) <= 1
     /\ r.contacts.kind # "null"
     /\ r.name # "n1"
     /\ r.op = "update" => r.name = "ABSENT" \/ r.email = ABSENT
     /\ r.inm = -1}

\* Two clients, one request each; the clients are alike, so client 1 is the
\* one whose request arrives first.
ConcArrive(p) ==
  /\ pc[p] = "idle"
  /\ \A q \in Procs : q < p => pc[q] # "idle"
  /\ \E r \in ConcRequests : ArriveWith(p, r, 1)

\* The response has been sent; the connection is free for the next request.
Release(p) ==
  /\ pc[p] = "done"
  /\ pc' = [pc EXCEPT ![p] = "idle"]
  /\ req' = [req EXCEPT ![p] = NoReq]
  /\ loc' = [loc EXCEPT ![p] = NoLoc]
  /\ resp' = [resp EXCEPT ![p] = NoResp]
  /\ pre' = [pre EXCEPT ![p] = Store(person, links)]
  /\ rid' = [rid EXCEPT ![p] = 0]
  /\ conc' = [conc EXCEPT ![p] = {}]
  /\ UNCHANGED <<person, links, nextId, clock, tx, wait, opsLeft, age>>

\* toDTO(row, contacts): created / modified are Date.toISOString() strings
ToDTO(i, row, cs) ==
  [id |-> i, name |-> row.name, email |-> row.email, contacts |-> cs,
   created |-> GetTime(row.created_at), modified |-> GetTime(row.updated_at)]

\* `"${updated_at.getTime()}"`
ItemETag(row) == GetTime(row.updated_at)

Frame(p) == UNCHANGED <<nextId, clock, resp>> /\ History

\* ------------------------------------------------------- REST POST /people
PostInsert(p) ==
  /\ pc[p] = "post_insert"
  /\ LET r == SqlInsertPerson(p, req[p].name, req[p].email, clock) IN
       /\ r.kind # "block"
       /\ Apply(p, r)
       /\ IF r.kind = "ok"
          THEN /\ loc' = [loc EXCEPT ![p].pid = nextId, ![p].prow = r.tx.pw[nextId]]
               /\ Goto(p, IF HasContactItems(req[p]) THEN "post_check"
                          ELSE "post_contacts")
               /\ nextId' = nextId + 1
          ELSE /\ Fail(p, r.code, "rollback")
               /\ nextId' = nextId
  /\ UNCHANGED <<clock, resp>> /\ History

PostCheck(p) ==
  /\ pc[p] = "post_check"
  /\ IF ExistingCount(p, req[p].contacts.ids) # Len(req[p].contacts.ids)
     THEN Fail(p, "400", "rollback")
     ELSE Goto(p, "post_links") /\ loc' = loc
  /\ UNCHANGED <<person, links, tx, wait>> /\ Frame(p)

PostLinks(p) ==
  /\ pc[p] = "post_links"
  /\ LET r == SqlInsertLinks(p, loc[p].pid, req[p].contacts.ids) IN
       /\ r.kind # "block"
       /\ Apply(p, r)
       /\ IF r.kind = "ok" THEN Goto(p, "post_contacts") /\ loc' = loc
          ELSE Fail(p, r.code, "rollback")
  /\ Frame(p)

PostContacts(p) ==
  /\ pc[p] = "post_contacts"
  /\ Local(p, "contacts", ContactsOf(p, loc[p].pid))
  /\ Goto(p, "post_commit")
  /\ UNCHANGED <<person, links, tx, wait>> /\ Frame(p)

PostCommit(p) ==
  /\ pc[p] = "post_commit"
  /\ CommitStore(p, tx[p])
  /\ Respond(p, "201", <<ToDTO(loc[p].pid, loc[p].prow, loc[p].contacts)>>, -1)
  /\ UNCHANGED <<nextId, clock, loc>> /\ History

\* catch (e) { await client.query("rollback");
\*   if (e?.code === "23505") throw conflict("Email already exists"); throw e; }
\* An httpErrors error keeps its status; any other error is answered 500.
\* The catch block without its 23505 branch: every database error rethrown.
CatchStatusRethrown(c) ==
  IF c = "400" THEN "400_contacts"
  ELSE IF c = "404" THEN "404"
  ELSE "500"

CatchStatus(c) ==
  IF c \in {"23505", "23505_pk"} THEN "409"
  ELSE IF c = "400" THEN "400_contacts"
  ELSE IF c = "404" THEN "404"
  ELSE "500"

Rollback(p) ==
  /\ pc[p] = "rollback"
  /\ tx' = [tx EXCEPT ![p] = NoTx]
  /\ wait' = [wait EXCEPT ![p] = NoWait]
  /\ Respond(p, CatchStatus(loc[p].err), <<>>, -1)
  /\ UNCHANGED <<person, links, nextId, clock, loc>> /\ History

\* -------------------------------------------------- REST PATCH /people/:id
AfterUpdate(r) ==
  IF HasContactsKey(r) THEN "patch_dellinks" ELSE "patch_reselect"

PatchExists(p) ==
  /\ pc[p] = "patch_exists"
  /\ IF ~SelPerson(p, req[p].id).live THEN Fail(p, "404", "rollback")
     ELSE /\ Goto(p, IF HasUpdates(req[p]) THEN "patch_update" ELSE AfterUpdate(req[p]))
          /\ loc' = loc
  /\ UNCHANGED <<person, links, tx, wait>> /\ Frame(p)

PatchUpdate(p) ==
  /\ pc[p] = "patch_update"
  /\ LET r == SqlUpdatePerson(p, req[p].id, req[p].name, req[p].email, clock) IN
       /\ r.kind # "block"
       /\ Apply(p, r)
       /\ IF r.kind = "ok" THEN Goto(p, AfterUpdate(req[p])) /\ loc' = loc
          ELSE Fail(p, r.code, "rollback")
  /\ Frame(p)

PatchDelLinks(p) ==
  /\ pc[p] = "patch_dellinks"
  /\ LET r == SqlDeleteLinks(p, req[p].id) IN
       /\ r.kind # "block"
       /\ Apply(p, r)
  /\ Goto(p, IF HasContactItems(req[p]) THEN "patch_check" ELSE "patch_reselect")
  /\ UNCHANGED loc /\ Frame(p)

PatchCheck(p) ==
  /\ pc[p] = "patch_check"
  /\ IF ExistingCount(p, req[p].contacts.ids) # Len(req[p].contacts.ids)
     THEN Fail(p, "400", "rollback")
     ELSE Goto(p, "patch_links") /\ loc' = loc
  /\ UNCHANGED <<person, links, tx, wait>> /\ Frame(p)

PatchLinks(p) ==
  /\ pc[p] = "patch_links"
  /\ LET r == SqlInsertLinks(p, req[p].id, req[p].contacts.ids) IN
       /\ r.kind # "block"
       /\ Apply(p, r)
       /\ IF r.kind = "ok" THEN Goto(p, "patch_reselect") /\ loc' = loc
          ELSE Fail(p, r.code, "rollback")
  /\ Frame(p)

PatchReselect(p) ==
  /\ pc[p] = "patch_reselect"
  /\ Local(p, "prow", SelPerson(p, req[p].id))
  /\ Goto(p, "patch_contacts")
  /\ UNCHANGED <<person, links, tx, wait>> /\ Frame(p)

PatchContacts(p) ==
  /\ pc[p] = "patch_contacts"
  /\ Local(p, "contacts", ContactsOf(p, req[p].id))
  /\ Goto(p, "patch_commit")
  /\ UNCHANGED <<person, links, tx, wait>> /\ Frame(p)

\* await client.query("commit"); return toDTO(p.rows[0], contacts.rows);
\* toDTO of no row throws after the commit; the catch's rollback finds no
\* transaction and the error is answered 500.
PatchCommit(p) ==
  /\ pc[p] = "patch_commit"
  /\ CommitStore(p, tx[p])
  /\ IF loc[p].prow.live
     THEN Respond(p, "200", <<ToDTO(req[p].id, loc[p].prow, loc[p].contacts)>>, -1)
     ELSE Respond(p, "500", <<>>, -1)
  /\ UNCHANGED <<nextId, clock, loc>> /\ History

\* ---------------------------------------------------- REST GET /people/:id
GetPerson(p) ==
  /\ pc[p] = "get_person"
  /\ LET row == SelPerson(p, req[p].id) IN
       IF ~row.live
       THEN Respond(p, "404", <<>>, -1) /\ loc' = loc
       ELSE Goto(p, "get_contacts") /\ Local(p, "prow", row) /\ resp' = resp
  /\ UNCHANGED <<person, links, tx, wait, nextId, clock>> /\ History

GetContacts(p) ==
  /\ pc[p] = "get_contacts"
  /\ LET cs == ContactsOf(p, req[p].id)
         etag == ItemETag(loc[p].prow)
     IN /\ Local(p, "contacts", cs)
        /\ IF req[p].inm = etag
           THEN Respond(p, "304", <<>>, -1)
           ELSE Respond(p, "200", <<ToDTO(req[p].id, loc[p].prow, cs)>>, etag)
  /\ UNCHANGED <<person, links, tx, wait, nextId, clock>> /\ History

\* ------------------------------------------------- REST DELETE /people/:id
DelPerson(p) ==
  /\ pc[p] = "del_person"
  /\ LET r == SqlDeletePerson(p, req[p].id) IN
       /\ r.kind # "block"
       /\ Apply(p, r)
       /\ Respond(p, IF r.n = 0 THEN "404" ELSE "204", <<>>, -1)
  /\ UNCHANGED <<nextId, clock, loc>> /\ History

\* ------------------------------------------------------- GraphQL resolvers
\* A resolver that throws is answered in the errors channel; the status keeps
\* the SQLSTATE (or the message) of what was thrown.
GqlError(c) == "err_" \o c

\* Query.person
GqPerson(p) ==
  /\ pc[p] = "gq_person"
  /\ LET row == SelPerson(p, req[p].id) IN
       IF ~row.live
       THEN Respond(p, "null", <<>>, -1) /\ loc' = loc
       ELSE Goto(p, "gq_contacts") /\ Local(p, "prow", row) /\ resp' = resp
  /\ UNCHANGED <<person, links, tx, wait, nextId, clock>> /\ History

GqContacts(p) ==
  /\ pc[p] = "gq_contacts"
  /\ LET cs == ContactsOf(p, req[p].id) IN
       /\ Local(p, "contacts", cs)
       /\ Respond(p, "data", <<ToDTO(req[p].id, loc[p].prow, cs)>>, -1)
  /\ UNCHANGED <<person, links, tx, wait, nextId, clock>> /\ History

\* Mutation.createPerson
GcInsert(p) ==
  /\ pc[p] = "gc_insert"
  /\ \E t \in ClockAt(p) :
     LET r == SqlInsertPerson(p, req[p].name, req[p].email, t) IN
       /\ clock' = t
       /\ r.kind # "block"
       /\ Apply(p, r)
       /\ IF r.kind = "ok"
          THEN /\ loc' = [loc EXCEPT ![p].pid = nextId, ![p].prow = r.tx.pw[nextId]]
               /\ Goto(p, IF HasContactItems(req[p]) THEN "gc_links" ELSE "gc_contacts")
               /\ nextId' = nextId + 1
               /\ resp' = resp
          ELSE /\ Respond(p, GqlError(r.code), <<>>, -1)
               /\ loc' = loc
               /\ nextId' = nextId
  /\ History

GcLinks(p) ==
  /\ pc[p] = "gc_links"
  /\ LET r == SqlInsertLinks(p, loc[p].pid, req[p].contacts.ids) IN
       /\ r.kind # "block"
       /\ Apply(p, r)
       /\ IF r.kind = "ok" THEN Goto(p, "gc_contacts") /\ resp' = resp
          ELSE Respond(p, GqlError(r.code), <<>>, -1)
  /\ UNCHANGED <<nextId, clock, loc>> /\ History

GcContacts(p) ==
  /\ pc[p] = "gc_contacts"
  /\ LET cs == ContactsOf(p, loc[p].pid) IN
       /\ Local(p, "contacts", cs)
       /\ Respond(p, "data", <<ToDTO(loc[p].pid, loc[p].prow, cs)>>, -1)
  /\ UNCHANGED <<person, links, tx, wait, nextId, clock>> /\ History

\* Mutation.updatePerson
GuAfterUpdate(r) ==
  IF HasContactsKey(r) THEN "gu_dellinks" ELSE "gu_reselect"

GuUpdate(p) ==
  /\ pc[p] = "gu_update"
  /\ \E t \in ClockAt(p) :
     LET r == SqlUpdatePerson(p, req[p].id, req[p].name, req[p].email, t) IN
       /\ clock' = t
       /\ r.kind # "block"
       /\ Apply(p, r)
       /\ IF r.kind = "ok" THEN Goto(p, GuAfterUpdate(req[p])) /\ resp' = resp
          ELSE Respond(p, GqlError(r.code), <<>>, -1)
  /\ UNCHANGED <<nextId, loc>> /\ History

GuDelLinks(p) ==
  /\ pc[p] = "gu_dellinks"
  /\ LET r == SqlDeleteLinks(p, req[p].id) IN
       /\ r.kind # "block"
       /\ Apply(p, r)
  /\ Goto(p, IF HasContactItems(req[p]) THEN "gu_links" ELSE "gu_reselect")
  /\ UNCHANGED loc /\ Frame(p)

GuLinks(p) ==
  /\ pc[p] = "gu_links"
  /\ LET r == SqlInsertLinks(p, req[p].id, req[p].contacts.ids) IN
       /\ r.kind # "block"
       /\ Apply(p, r)
       /\ IF r.kind = "ok" THEN Goto(p, "gu_reselect") /\ resp' = resp
          ELSE Respond(p, GqlError(r.code), <<>>, -1)
  /\ UNCHANGED <<nextId, clock, loc>> /\ History

\* if (!p.rowCount) throw new Error("not found");
GuReselect(p) ==
  /\ pc[p] = "gu_reselect"
  /\ LET row == SelPerson(p, req[p].id) IN
       IF ~row.live
       THEN Respond(p, GqlError("not_found"), <<>>, -1) /\ loc' = loc
       ELSE Goto(p, "gu_contacts") /\ Local(p, "prow", row) /\ resp' = resp
  /\ UNCHANGED <<person, links, tx, wait, nextId, clock>> /\ History

GuContacts(p) ==
  /\ pc[p] = "gu_contacts"
  /\ LET cs == ContactsOf(p, req[p].id) IN
       /\ Local(p, "contacts", cs)
       /\ Respond(p, "data", <<ToDTO(req[p].id, loc[p].prow, cs)>>, -1)
  /\ UNCHANGED <<person, links, tx, wait, nextId, clock>> /\ History

\* Mutation.deletePerson: return d.rowCount > 0
GdPerson(p) ==
  /\ pc[p] = "gd_person"
  /\ LET r == SqlDeletePerson(p, req[p].id) IN
       /\ r.kind # "block"
       /\ Apply(p, r)
       /\ Respond(p, IF r.n > 0 THEN "data_true" ELSE "data_false", <<>>, -1)
  /\ UNCHANGED <<nextId, clock, loc>> /\ History

\* ------------------------------------------------------ REST GET /people
\* items: page.rows.map(...), a person without its contacts
ListItem(i, row) ==
  [id |-> i, name |-> row.name, email |-> row.email,
   created |-> GetTime(row.created_at), modified |-> GetTime(row.updated_at)]

\* { total, limit, offset, items }
PageBody(total, l, o, items) ==
  [total |-> total, limit |-> l, offset |-> o, items |-> items]

RlPage(p) ==
  /\ pc[p] = "rl_page"
  /\ Local(p, "page", PageRows(VP(p), LimitOf(req[p]), OffsetOf(req[p])))
  /\ Goto(p, "rl_count")
  /\ UNCHANGED <<person, links, tx, wait, nextId, clock, resp>> /\ History

RlCount(p) ==
  /\ pc[p] = "rl_count"
  /\ LET l == LimitOf(req[p])
         o == OffsetOf(req[p])
         total == CountRows(VP(p))
         etag == ListETag(l, o, total, MaxUpdated(VP(p)))
         items == [k \in 1..Len(loc[p].page) |->
                     ListItem(loc[p].page[k].id, loc[p].page[k].row)]
     IN IF req[p].tag = etag
        THEN Respond(p, "304", <<>>, -1)
        ELSE Respond(p, "200", <<PageBody(total, l, o, items)>>, etag)
  /\ UNCHANGED <<person, links, tx, wait, nextId, clock, loc>> /\ History

\* ----------------------------------------------------------- Query.people
GlPage(p) ==
  /\ pc[p] = "gl_page"
  /\ LET l == LimitOf(req[p])
         o == OffsetOf(req[p])
     IN IF PageError(l, o) # ""
        THEN Respond(p, GqlError(PageError(l, o)), <<>>, -1) /\ loc' = loc
        ELSE /\ Local(p, "page", PageRows(VP(p), l, o))
             /\ Goto(p, "gl_count")
             /\ resp' = resp
  /\ UNCHANGED <<person, links, tx, wait, nextId, clock>> /\ History

\* The count, then one contactsOf query per row of the page.
GlCount(p) ==
  /\ pc[p] = "gl_count"
  /\ LET total == CountRows(VP(p)) IN
       IF Len(loc[p].page) = 0
       THEN /\ Respond(p, "data",
                       <<PageBody(total, LimitOf(req[p]), OffsetOf(req[p]), <<>>)>>, -1)
            /\ loc' = loc
       ELSE /\ Local(p, "pid", total)
            /\ Goto(p, "gl_contacts")
            /\ resp' = resp
  /\ UNCHANGED <<person, links, tx, wait, nextId, clock>> /\ History

GlContacts(p) ==
  /\ pc[p] = "gl_contacts"
  /\ LET k == Len(loc[p].items) + 1
         item == ToDTO(loc[p].page[k].id, loc[p].page[k].row,
                       ContactsOf(p, loc[p].page[k].id))
         items == Append(loc[p].items, item)
     IN /\ loc' = [loc EXCEPT ![p].items = items]
        /\ IF k = Len(loc[p].page)
           THEN Respond(p, "data",
                        <<PageBody(loc[p].pid, LimitOf(req[p]), OffsetOf(req[p]),
                                   items)>>, -1)
           ELSE UNCHANGED <<pc, resp>>
  /\ UNCHANGED <<person, links, tx, wait, nextId, clock>> /\ History

ListHandlers(p) ==
  RlPage(p) \/ RlCount(p) \/ GlPage(p) \/ GlCount(p) \/ GlContacts(p)

\* ------------------------------------------------------------- lock waits
\* The statement request p awaits, as the store would answer it now.
Stmt(p) ==
  CASE pc[p] \in {"post_insert", "gc_insert"} ->
         SqlInsertPerson(p, req[p].name, req[p].email, clock)
    [] pc[p] \in {"patch_update", "gu_update"} ->
         SqlUpdatePerson(p, req[p].id, req[p].name, req[p].email, clock)
    [] pc[p] \in {"patch_dellinks", "gu_dellinks"} ->
         SqlDeleteLinks(p, req[p].id)
    [] pc[p] \in {"post_links", "gc_links"} ->
         SqlInsertLinks(p, loc[p].pid, req[p].contacts.ids)
    [] pc[p] \in {"patch_links", "gu_links"} ->
         SqlInsertLinks(p, req[p].id, req[p].contacts.ids)
    [] pc[p] \in {"del_person", "gd_person"} ->
         SqlDeletePerson(p, req[p].id)
    [] OTHER -> Ok(tx[p], 0)

\* The statement is issued while another transaction holds what it needs: it
\* waits, with the snapshot and the now() of the moment it was issued.
Block(p) ==
  /\ InFlight(p)
  /\ ~wait[p].on
  /\ Stmt(p).kind = "block"
  /\ \E t \in ClockAt(p) :
       /\ clock' = t
       /\ wait' = [wait EXCEPT ![p] =
                     [on |-> TRUE, at |-> t, targets |-> LinkTargets(p, req[p].id)]]
  /\ UNCHANGED <<person, links, nextId, tx, pc, req, loc, resp, pre, rid,
                 conc, opsLeft, age>>

\* Two waiting statements wait for each other: PostgreSQL's deadlock detector
\* ends one of them with SQLSTATE 40P01.
DeadlockAbort(p) ==
  /\ wait[p].on
  /\ Stmt(p).kind = "block"
  /\ \E q \in Stmt(p).who : wait[q].on /\ Stmt(q).kind = "block" /\ p \in Stmt(q).who
  /\ wait' = [wait EXCEPT ![p] = NoWait]
  /\ IF tx[p].active
     THEN Fail(p, "40P01", "rollback") /\ resp' = resp
     ELSE /\ Respond(p, IF req[p].surface = "rest" THEN "500" ELSE GqlError("40P01"),
                     <<>>, -1)
          /\ loc' = loc
  /\ UNCHANGED <<person, links, nextId, clock, tx>> /\ History

\* ------------------------------------------------------- specifications
Handlers(p) ==
  \/ PostInsert(p) \/ PostCheck(p) \/ PostLinks(p) \/ PostContacts(p)
  \/ PostCommit(p) \/ Rollback(p)
  \/ PatchExists(p) \/ PatchUpdate(p) \/ PatchDelLinks(p) \/ PatchCheck(p)
  \/ PatchLinks(p) \/ PatchReselect(p) \/ PatchContacts(p) \/ PatchCommit(p)
  \/ GetPerson(p) \/ GetContacts(p) \/ DelPerson(p)
  \/ GqPerson(p) \/ GqContacts(p)
  \/ GcInsert(p) \/ GcLinks(p) \/ GcContacts(p)
  \/ GuUpdate(p) \/ GuDelLinks(p) \/ GuLinks(p) \/ GuReselect(p) \/ GuContacts(p)
  \/ GdPerson(p)

Next == \E p \in Procs : Arrive(p) \/ Release(p) \/ Handlers(p)

ConcNext ==
  \E p \in Procs : ConcArrive(p) \/ Handlers(p) \/ Block(p) \/ DeadlockAbort(p)

Spec == Init /\ [][Next]_vars

ConcSpec == ConcInit /\ [][ConcNext]_vars

\* The same logical request on both surfaces: client 1 sends a request
\* through one surface and, once it has been answered, client 2 sends the
\* same request through the other.
Twin(r) ==
  LET other == IF r.surface = "rest" THEN "gql" ELSE "rest" IN
    IF r.op = "list" THEN [r EXCEPT !.surface = other, !.tag = <<>>]
    ELSE [r EXCEPT !.surface = other, !.inm = -1]

TwinInit == InitWith(Procs, Cardinality(Procs), 0..MaxSeed) /\ age = NoAge

TwinFirst(p) ==
  /\ p = 1
  /\ pc[p] = "idle"
  /\ \E r \in Requests \cup ListReqs : ArriveWith(p, r, 1)

TwinSecond(p) ==
  /\ p = 2
  /\ pc[p] = "idle"
  /\ pc[1] = "done"
  /\ ArriveWith(p, Twin(req[1]), 1)

TwinNext ==
  \E p \in Procs : TwinFirst(p) \/ TwinSecond(p) \/ Handlers(p) \/ ListHandlers(p)

TwinSpec == TwinInit /\ [][TwinNext]_vars

\* A list request served while another client writes: client 1 asks for a
\* page, client 2 sends one request at any moment before, between or after
\* the statements of the list.
RaceLists ==
  {r \in ListReqs : /\ r.tag = <<>>
                    /\ r.limit \in {NoArg, MinLimit}
                    /\ r.offset \in {NoArg, MinLimit}}

RaceInit == InitWith(Procs, Cardinality(Procs), 0..MaxSeed) /\ age = NoAge

RaceList(p) ==
  /\ p = 1
  /\ pc[p] = "idle"
  /\ \E r \in RaceLists : ArriveWith(p, r, 1)

RaceWrite(p) ==
  /\ p = 2
  /\ pc[p] = "idle"
  /\ pc[1] # "idle"
  /\ \E r \in ConcRequests : ArriveWith(p, r, 1)

RaceNext ==
  \E p \in Procs : RaceList(p) \/ RaceWrite(p) \/ Handlers(p) \/ ListHandlers(p)

RaceSpec == RaceInit /\ [][RaceNext]_vars

\* A cache in front of GET /people/:id: client 1 fetches a person and keeps
\* the answer and its ETag; client 2 then sends requests one after the
\* other, fetches with an If-None-Match header among them.
CacheInit == InitWith(Procs, MaxOps, 0..MaxSeed) /\ age = NoAge

CacheFill(p) ==
  /\ p = 1
  /\ pc[p] = "idle"
  /\ \E r \in GetReqs : r.surface = "rest" /\ r.inm = -1 /\ ArriveWith(p, r, 0)

CacheUse(p) ==
  /\ p = 2
  /\ pc[1] = "done"
  /\ Arrive(p) \/ Release(p)

CacheNext == \E p \in Procs : CacheFill(p) \/ CacheUse(p) \/ Handlers(p)

CacheSpec == CacheInit /\ [][CacheNext]_vars

\* ------------------------------------------------------------- computeAge
\* The age a surface derives from row.birthday and new Date().  A date is
\* what getUTCFullYear, getUTCMonth and getUTCDate read from it.
NullYears == [kind |-> "null", n |-> 0]
Years(n) == [kind |-> "int", n |-> n]

\* years-- never taken
computeAgeNotTruncated(bday, today) ==
  IF bday = NoDate THEN NullYears
  ELSE LET years == today.y - bday.y
       IN IF years >= MinAge /\ years <= MaxAge THEN Years(years) ELSE NullYears

\* REST: computeAge(bday)
computeAge(bday, today) ==
  IF bday = NoDate THEN NullYears
  ELSE LET diff == today.y - bday.y
           m == today.m - bday.m
           years == IF m < 0 \/ (m = 0 /\ today.d < bday.d) THEN diff - 1 ELSE diff
       IN IF years >= MinAge /\ years <= MaxAge THEN Years(years) ELSE NullYears

\* GraphQL: computeAge(bday)
computeAgeGql(bday, today) ==
  IF bday = NoDate THEN NullYears
  ELSE LET diff == today.y - bday.y
           m == today.m - bday.m
           years == IF m < 0 \/ (m = 0 /\ today.d < bday.d) THEN diff - 1 ELSE diff
       IN IF years >= MinAge /\ years <= MaxAge THEN Years(years) ELSE NullYears

\* Birthdays in the first two years drawn, a row without birthday, and
\* current dates so many years later that the difference falls below, at,
\* inside and above 0..150.
MonthDays == (0..MaxMonth) \X (1..MaxDay)
Birthdays ==
  {[y |-> y, m |-> md[1], d |-> md[2]] :
     y \in {FirstYear, FirstYear + 1}, md \in MonthDays} \cup {NoDate}
Todays ==
  {[y |-> FirstYear + k, m |-> md[1], d |-> md[2]] :
     k \in {0, 1, 10, MaxAge, MaxAge + 1, MaxAge + 2}, md \in MonthDays}

AgeInit ==
  /\ InitWith({}, 0, {0})
  /\ \E b \in Birthdays, t \in Todays :
       age = [bday |-> b, today |-> t, rest |-> NoYears, gql |-> NoYears]

\* toDTO of a route: age: computeAge(birthdayDate)
RestAge ==
  /\ age.rest = NoYears
  /\ age' = [age EXCEPT !.rest = computeAge(age.bday, age.today)]
  /\ UNCHANGED <<person, links, nextId, clock, tx, pc, req, loc, wait, resp,
                 pre, rid, conc, opsLeft>>

\* toDTO of a resolver: age: computeAge(birthdayDate)
GqlAge ==
  /\ age.gql = NoYears
  /\ age' = [age EXCEPT !.gql = computeAgeGql(age.bday, age.today)]
  /\ UNCHANGED <<person, links, nextId, clock, tx, pc, req, loc, wait, resp,
                 pre, rid, conc, opsLeft>>

AgeNext == RestAge \/ GqlAge

AgeSpec == AgeInit /\ [][AgeNext]_vars

\* ------------------------------------------------------------ properties
\* The vocabulary of the properties: how a call ended, and what it was given.
Done(p) == pc[p] = "done"
Succeeded(p) ==
  Done(p) /\ resp[p].status \in {"200", "201", "204", "304", "data", "data_true"}
Failed(p) == Done(p) /\ ~Succeeded(p)
\* The referential error: REST 400 "One or more contacts do not exist", and
\* the foreign-key violation the GraphQL surface passes on.
Referential(st) == st \in {"400_contacts", GqlError("23503")}
\* The conflict error: REST 409, and the unique violation the GraphQL
\* surface passes on.
Conflict(st) == st \in {"409", GqlError("23505")}

Outgoing(ls, id) == {x \in ls : x[1] = id}
\* The contact list of request r names an id that is no person of store s.
NamesMissing(r, s) ==
  /\ r.contacts.kind = "list"
  /\ \E k \in 1..Len(r.contacts.ids) :
       r.contacts.ids[k] \notin Ids \/ ~s.person[r.contacts.ids[k]].live
DistinctContacts(r) == Cardinality(Range(r.contacts.ids)) = Len(r.contacts.ids)
Exists(s, id) == id \in Ids /\ s.person[id].live
HoldsEmail(s, e) == \E i \in Ids : s.person[i].live /\ s.person[i].email = e

\* C1: an update of an existing person, on either surface, that carries
\* scalar fields and a contact list naming a person that does not exist
\* fails, and leaves the person's row (scalars and updated_at) and its
\* outgoing links as they were before the call.
C1_BadContactUpdateChangesNothing ==
  \A p \in Procs :
    (/\ Done(p) /\ req[p].op = "update"
     /\ Exists(pre[p], req[p].id)
     /\ HasUpdates(req[p])
     /\ NamesMissing(req[p], pre[p]))
    => /\ Failed(p)
       /\ person[req[p].id] = pre[p].person[req[p].id]
       /\ Outgoing(links, req[p].id) = Outgoing(pre[p].links, req[p].id)

\* C2: a create with acceptable name and email (the email free) whose contact
\* list, of distinct ids, names a person that does not exist fails with the
\* referential error, and the store holds no new person and no new link.
C2_BadContactCreateAddsNothing ==
  \A p \in Procs :
    (/\ Done(p) /\ req[p].op = "create"
     /\ req[p].name \in Names /\ req[p].email \in Emails
     /\ ~HoldsEmail(pre[p], req[p].email)
     /\ DistinctContacts(req[p])
     /\ NamesMissing(req[p], pre[p]))
    => /\ Referential(resp[p].status)
       /\ person = pre[p].person
       /\ links = pre[p].links

\* The person with its contacts as one fetch of store s would return it.
Aggregate(s, id) == ToDTO(id, s.person[id], ContactsIn(s.person, s.links, id))

\* C3: when a fetch by id of P and a successful update of P that changes
\* both P's scalar fields and P's set of contacts have both been answered,
\* the fetched person is P as it was before the update or P as it is after
\* it, never the scalars of one with the contacts of the other.
C3_FetchSeesBeforeOrAfter ==
  \A f \in Procs : \A u \in Procs \ {f} :
    (/\ Done(f) /\ req[f].op = "get" /\ resp[f].body # <<>>
     /\ Succeeded(u) /\ req[u].op = "update" /\ req[u].id = req[f].id
     /\ HasUpdates(req[u]) /\ HasContactsKey(req[u])
     /\ person[req[u].id].name # pre[u].person[req[u].id].name
     /\ Outgoing(links, req[u].id) # Outgoing(pre[u].links, req[u].id))
    => resp[f].body[1] \in {Aggregate(pre[u], req[f].id),
                            Aggregate(Store(person, links), req[f].id)}

\* C4: after a successful update that carries only a contact list and changes
\* the person's set of contacts, served at a later millisecond than the
\* person's last modification, the person's modifiedAt, and so its item
\* ETag, differs from the one before the update.
C4_ContactOnlyUpdateBumpsModified ==
  \A p \in Procs :
    (/\ Succeeded(p) /\ req[p].op = "update"
     /\ ~HasUpdates(req[p]) /\ HasContactsKey(req[p])
     /\ Outgoing(links, req[p].id) # Outgoing(pre[p].links, req[p].id)
     /\ GetTime(clock) > GetTime(pre[p].person[req[p].id].updated_at))
    => ItemETag(person[req[p].id]) # ItemETag(pre[p].person[req[p].id])

\* C5: a create with an acceptable body whose email a person already holds
\* fails with the conflict error (409 on REST); no person and no link is
\* added, and every person already stored, the holder of the email among
\* them, is unchanged.
C5_DuplicateEmailCreateConflicts ==
  \A p \in Procs :
    (/\ Done(p) /\ req[p].op = "create"
     /\ req[p].name \in Names /\ req[p].email \in Emails
     /\ req[p].surface = "rest" => ValidBody(req[p])
     /\ HoldsEmail(pre[p], req[p].email))
    => /\ Conflict(resp[p].status)
       /\ person = pre[p].person
       /\ links = pre[p].links

\* A REST create with the email of a stored person has been answered 409.
C5_Witness ==
  \E p \in Procs :
    /\ Done(p) /\ req[p].op = "create" /\ req[p].surface = "rest"
    /\ ValidBody(req[p])
    /\ HoldsEmail(pre[p], req[p].email)
    /\ resp[p].status = "409"

\* C6: no two persons ever hold the same email; and of two create calls with
\* the same email, free when the first of them arrived, that were in flight
\* together, exactly one created its person and the other failed with the
\* conflict error.
C6_ConcurrentCreatesOneWins ==
  /\ \A i \in Ids : \A j \in Ids \ {i} :
       person[i].live /\ person[j].live => person[i].email # person[j].email
  /\ \A p \in Procs : \A q \in Procs \ {p} :
       (/\ Done(p) /\ Done(q)
        /\ req[p].op = "create" /\ req[q].op = "create"
        /\ req[p].email = req[q].email
        /\ rid[q] \in conc[p]
        /\ ~HoldsEmail(pre[p], req[p].email) \/ ~HoldsEmail(pre[q], req[q].email))
       => \/ Succeeded(p) /\ Conflict(resp[q].status)
          \/ Succeeded(q) /\ Conflict(resp[p].status)

\* Two REST creates with one email were in flight together: the second waited
\* for the first to commit, which was answered 201, and was answered 409.
C6_Witness ==
  \E p \in Procs : \E q \in Procs \ {p} :
    /\ Done(p) /\ Done(q)
    /\ req[p].op = "create" /\ req[q].op = "create"
    /\ req[p].email = req[q].email
    /\ rid[q] \in conc[p]
    /\ resp[p].status = "201" /\ resp[q].status = "409"
    /\ \E i \in Ids : person[i].live /\ person[i].email = req[p].email

\* C7: every link of the store joins two stored persons, so once a delete of
\* B has succeeded no link has B at either end; and a fetch by id of a stored
\* person succeeds, every contact it lists being a stored person.
C7_DeleteCascades ==
  /\ \A x \in links : person[x[1]].live /\ person[x[2]].live
  /\ \A p \in Procs :
       Succeeded(p) /\ req[p].op = "delete"
       => \A x \in links : x[1] # req[p].id /\ x[2] # req[p].id
  /\ \A p \in Procs :
       Done(p) /\ req[p].op = "get" /\ Exists(pre[p], req[p].id)
       => /\ Succeeded(p)
          /\ resp[p].body # <<>> =>
               \A k \in 1..Len(resp[p].body[1].contacts) :
                 person[resp[p].body[1].contacts[k].id].live

\* A delete of B has succeeded while a person A, still stored, listed B.
C7_Witness ==
  \E p \in Procs : \E x \in pre[p].links :
    /\ Succeeded(p) /\ req[p].op = "delete"
    /\ x[2] = req[p].id
    /\ person[x[1]].live
    /\ x \notin links

\* C8: a fetch by id that arrives after a successful update of person B has
\* been answered lists B, where B is a contact of the fetched person, with
\* the name and the email that update gave B.
C8_ContactsResolvedLive ==
  \A u \in Procs : \A f \in Procs \ {u} :
    (/\ Succeeded(u) /\ req[u].op = "update"
     /\ Done(f) /\ req[f].op = "get" /\ resp[f].body # <<>>
     /\ rid[f] < rid[u] /\ rid[u] \notin conc[f])
    => \A k \in 1..Len(resp[f].body[1].contacts) :
         LET c == resp[f].body[1].contacts[k]
             was == pre[u].person[req[u].id]
         IN c.id = req[u].id
            => /\ c.name = IF req[u].name = "ABSENT" THEN was.name ELSE req[u].name
               /\ c.email = IF req[u].email = ABSENT THEN was.email ELSE req[u].email

\* Person A listed B; B was renamed by an update; a fetch of A that arrived
\* afterwards lists B under the new name.
C8_Witness ==
  \E u \in Procs : \E f \in Procs \ {u} :
    /\ Succeeded(u) /\ req[u].op = "update"
    /\ req[u].name \in Names
    /\ req[u].name # pre[u].person[req[u].id].name
    /\ Done(f) /\ req[f].op = "get" /\ resp[f].body # <<>>
    /\ rid[f] < rid[u] /\ rid[u] \notin conc[f]
    /\ <<req[f].id, req[u].id>> \in pre[u].links
    /\ \E k \in 1..Len(resp[f].body[1].contacts) :
         /\ resp[f].body[1].contacts[k].id = req[u].id
         /\ resp[f].body[1].contacts[k].name = req[u].name

\* The request replaces the contacts of a stored person by a list of distinct
\* stored persons other than itself, and changes no scalar that could fail.
ValidReplace(r, s) ==
  /\ r.op = "update" /\ Exists(s, r.id)
  /\ r.contacts.kind = "list" /\ DistinctContacts(r)
  /\ \A k \in 1..Len(r.contacts.ids) :
       Exists(s, r.contacts.ids[k]) /\ r.contacts.ids[k] # r.id
  /\ r.name \in Names \cup {"ABSENT"}
  /\ r.email \in {ABSENT, s.person[r.id].email}

\* C9: an update of P with a valid contact list succeeds and leaves P with
\* exactly the links to the persons listed, whatever links P had before; so
\* the same call made again succeeds and leaves the same links.
C9_ReplaceIsIdempotent ==
  \A p \in Procs :
    Done(p) /\ ValidReplace(req[p], pre[p])
    => /\ Succeeded(p)
       /\ Outgoing(links, req[p].id)
            = {<<req[p].id, c>> : c \in Range(req[p].contacts.ids)}

\* The second of two such updates in a row has succeeded: P already had the
\* links of the list, one of them made by the first update (the links the
\* store starts with go to persons created earlier), and has them still.
C9_Witness ==
  \E p \in Procs :
    /\ Succeeded(p) /\ ValidReplace(req[p], pre[p])
    /\ Outgoing(pre[p].links, req[p].id)
         = {<<req[p].id, c>> : c \in Range(req[p].contacts.ids)}
    /\ \E x \in Outgoing(pre[p].links, req[p].id) : x[1] < x[2]
    /\ Outgoing(links, req[p].id) = Outgoing(pre[p].links, req[p].id)

\* C10: no link, stored or written by a transaction still open, joins a
\* person to itself; and an update whose contact list holds the id of the
\* person updated fails.
C10_NoSelfContact ==
  /\ \A x \in links : x[1] # x[2]
  /\ \A q \in Procs : \A x \in tx[q].ladd : x[1] # x[2]
  /\ \A p \in Procs :
       (/\ Done(p) /\ req[p].op = "update"
        /\ req[p].contacts.kind = "list"
        /\ req[p].id \in Range(req[p].contacts.ids))
       => Failed(p)

\* A REST update of a stored person with its own id among the contacts has
\* been rolled back and answered 500.
C10_Witness ==
  \E p \in Procs :
    /\ Done(p) /\ req[p].op = "update" /\ req[p].surface = "rest"
    /\ Exists(pre[p], req[p].id)
    /\ req[p].id \in Range(req[p].contacts.ids)
    /\ resp[p].status = "500"
    /\ Outgoing(links, req[p].id) = Outgoing(pre[p].links, req[p].id)

\* C11: a successful update of a stored person leaves every scalar field its
\* input does not carry at its prior value (never null), gives the fields it
\* carries the values given, leaves id and created_at alone, leaves the
\* person's outgoing links alone when the input has no contacts key, and
\* changes no other person.
C11_UpdateChangesOnlyGivenFields ==
  \A p \in Procs :
    (Succeeded(p) /\ req[p].op = "update" /\ Exists(pre[p], req[p].id))
    => LET was == pre[p].person[req[p].id]
           is == person[req[p].id]
       IN /\ is.live
          /\ is.name = IF req[p].name = "ABSENT" THEN was.name ELSE req[p].name
          /\ is.email = IF req[p].email = ABSENT THEN was.email ELSE req[p].email
          /\ is.name # "NULL" /\ is.email # NULLV
          /\ is.created_at = was.created_at
          /\ ~HasContactsKey(req[p])
               => Outgoing(links, req[p].id) = Outgoing(pre[p].links, req[p].id)
          /\ \A i \in Ids \ {req[p].id} : person[i] = pre[p].person[i]

\* An update carrying only a new name has succeeded on a person that has
\* contacts: the email and the links are the ones it had.
C11_Witness ==
  \E p \in Procs :
    /\ Succeeded(p) /\ req[p].op = "update" /\ Exists(pre[p], req[p].id)
    /\ req[p].name \in Names /\ req[p].name # pre[p].person[req[p].id].name
    /\ req[p].email = ABSENT /\ ~HasContactsKey(req[p])
    /\ Outgoing(pre[p].links, req[p].id) # {}
    /\ person[req[p].id].name = req[p].name
    /\ person[req[p].id].email = pre[p].person[req[p].id].email

\* The update of a stored person carries an email, and nothing that is
\* refused before the email is looked at.
EmailUpdate(r, s) ==
  /\ r.op = "update" /\ Exists(s, r.id)
  /\ r.email \in Emails
  /\ r.name # "NULL"
  /\ r.surface = "rest" => ValidBody(r)

\* C12: an update that sets the email of a stored person to the email of
\* another stored person fails with the conflict error and leaves every
\* person and every link unchanged, whatever name and contact list it also
\* carries; an update that sets the email a person already has does not fail
\* with the conflict error.
C12_EmailUpdateConflict ==
  \A p \in Procs :
    (Done(p) /\ EmailUpdate(req[p], pre[p]))
    => IF \E j \in Ids \ {req[p].id} :
            pre[p].person[j].live /\ pre[p].person[j].email = req[p].email
       THEN /\ Conflict(resp[p].status)
            /\ person = pre[p].person
            /\ links = pre[p].links
       ELSE req[p].email = pre[p].person[req[p].id].email
            => ~Conflict(resp[p].status)

\* A REST update carrying another person's email together with a name and a
\* contact list has been answered 409.
C12_Witness ==
  \E p \in Procs :
    /\ Done(p) /\ EmailUpdate(req[p], pre[p]) /\ req[p].surface = "rest"
    /\ \E j \in Ids \ {req[p].id} :
         pre[p].person[j].live /\ pre[p].person[j].email = req[p].email
    /\ req[p].name \in Names /\ HasContactItems(req[p])
    /\ resp[p].status = "409"

\* Not-found: REST 404, GraphQL person null, deletePerson false, and the
\* "not found" error of updatePerson.
NotFound(st) == st \in {"404", "null", "data_false", GqlError("not_found")}

\* C13: a fetch by id, an update (with a body that passes validation) or a
\* delete of a well-formed id that is no person's id reports not-found and
\* leaves the store unchanged.
C13_UnknownIdNotFound ==
  \A p \in Procs :
    (/\ Done(p) /\ req[p].op \in {"get", "update", "delete"}
     /\ ~Exists(pre[p], req[p].id)
     /\ req[p].name # "NULL" /\ req[p].email # NULLV
     /\ req[p].surface = "rest" => ValidBody(req[p]))
    => /\ NotFound(resp[p].status)
       /\ person = pre[p].person
       /\ links = pre[p].links

\* C20: in every state reached by two clients at once, both ends of every
\* stored link are stored persons; and no link is about to be stored twice:
\* a link a transaction has inserted is neither stored already (unless that
\* transaction deleted it first) nor inserted by another open transaction.
C20_LinksJoinStoredPersons ==
  /\ \A x \in links : person[x[1]].live /\ person[x[2]].live
  /\ \A p \in Procs :
       /\ tx[p].ladd \cap (links \ tx[p].ldel) = {}
       /\ \A q \in Procs \ {p} : tx[p].ladd \cap tx[q].ladd = {}

\* A REST create naming B and a delete of B were in flight together, and
\* both succeeded: the delete took the new link with it.
C20_Witness ==
  \E p \in Procs : \E q \in Procs \ {p} :
    /\ Done(p) /\ req[p].op = "create" /\ resp[p].status = "201"
    /\ Succeeded(q) /\ req[q].op = "delete"
    /\ req[q].id \in Range(req[p].contacts.ids)
    /\ rid[q] \in conc[p]
    /\ ~person[req[q].id].live
    /\ links = {}

\* The fingerprint GET /people issues for (l, o) over the persons of rows.
PageTag(rows, l, o) == ListETag(l, o, CountRows(rows), MaxUpdated(rows))
PageWindows == {MinLimit, MaxIds, DefaultLimit, MaxLimit} \X (MinOffset..(MinOffset + MaxIds))

\* A create, a delete of a stored person or a scalar update of a stored
\* person has succeeded.
Changed(p) ==
  /\ Succeeded(p)
  /\ \/ req[p].op = "create"
     \/ req[p].op = "delete" /\ Exists(pre[p], req[p].id)
     \/ req[p].op = "update" /\ Exists(pre[p], req[p].id) /\ HasUpdates(req[p])

HasBody(p) == Done(p) /\ resp[p].status \in {"200", "201", "data"}
PersonsIn(p) ==
  IF req[p].op = "list" THEN resp[p].body[1].items ELSE resp[p].body

\* Both clients have been answered, and the store the second request found is
\* the store the first one found.
TwinsDone == Done(1) /\ Done(2) /\ pre[1] = pre[2]

\* The fields a write stamps with the time it is served at, which two writes
\* served one after the other need not share.
WriteStamps == {"created", "modified"}

\* C14: for the same store and the same logical create, update, fetch or
\* list request, the persons of the REST response and of the GraphQL response
\* have the same fields with the same values, contacts included (the time
\* stamps of two writes aside).
C14_SameFieldsOnBothSurfaces ==
  (TwinsDone /\ HasBody(1) /\ HasBody(2))
  => /\ Len(PersonsIn(1)) = Len(PersonsIn(2))
     /\ \A k \in 1..Len(PersonsIn(1)) :
          /\ DOMAIN PersonsIn(1)[k] = DOMAIN PersonsIn(2)[k]
          /\ \A f \in DOMAIN PersonsIn(1)[k] \cap DOMAIN PersonsIn(2)[k] :
               (IsWrite(req[1]) /\ f \in WriteStamps)
               \/ PersonsIn(1)[k][f] = PersonsIn(2)[k][f]

\* The outcome kinds of a response.
OutcomeKind(st) ==
  CASE st \in {"200", "201", "204", "304", "data", "data_true"} -> "success"
    [] st = "400_schema" -> "validation"
    [] Referential(st) -> "referential"
    [] Conflict(st) -> "conflict"
    [] NotFound(st) -> "not-found"
    [] OTHER -> "internal"

\* The persons and links of a store, time stamps aside.
Data(s) ==
  [persons |-> [i \in Ids |-> IF s.person[i].live
                              THEN <<s.person[i].name, s.person[i].email>>
                              ELSE <<>>],
   links |-> s.links]

\* C15: a create, update or delete whose body passes the schema, sent through
\* one surface and then, to the same store, through the other, leaves the
\* same persons and links and reports the same outcome kind both times.
C15_SameEffectOnBothSurfaces ==
  (TwinsDone /\ IsWrite(req[1]) /\ ValidBody(req[1]))
  => /\ OutcomeKind(resp[1].status) = OutcomeKind(resp[2].status)
     /\ Data(Store(person, links)) = Data(pre[2])

\* The stored persons of rows, each once, in strictly ascending email order.
Ascending(rows) ==
  LET live == {i \in Ids : rows[i].live}
      n == Cardinality(live)
  IN CHOOSE s \in [1..n -> Ids] :
       /\ Range(s) = live
       /\ \A i, j \in 1..n : i < j => rows[s[i]].email < rows[s[j]].email

\* A list request with limit in 1..100 and offset at least 0 has been
\* answered with a page.
PageServed(p) ==
  /\ HasBody(p) /\ req[p].op = "list"
  /\ LimitOf(req[p]) \in MinLimit..MaxLimit
  /\ OffsetOf(req[p]) >= MinOffset

\* C16: over a store of n persons that no one writes to, the page of limit L
\* at offset o holds the persons at places o+1 .. o+L of the ascending email
\* order (those that exist) and reports total = n; the pages at offsets 0, L,
\* 2L, ... are then that order cut in pieces of L, no person twice or missing.
C16_PagesPartitionByEmail ==
  \A p \in Procs :
    PageServed(p)
    => LET all == Ascending(pre[p].person)
           n == Len(all)
           l == LimitOf(req[p])
           o == OffsetOf(req[p])
           page == resp[p].body[1]
       IN /\ page.total = n
          /\ Len(page.items) = IF o >= n THEN 0 ELSE IF o + l <= n THEN l ELSE n - o
          /\ \A k \in 1..Len(page.items) : page.items[k].id = all[o + k]

\* The second page of limit 1 over two persons has been served: it holds the
\* person with the larger email alone, and total is 2.
C16_Witness ==
  \E p \in Procs :
    /\ PageServed(p)
    /\ LimitOf(req[p]) = MinLimit /\ OffsetOf(req[p]) = MinLimit
    /\ CountRows(pre[p].person) = 2
    /\ resp[p].body[1].total = 2
    /\ Len(resp[p].body[1].items) = 1
    /\ \A i \in Ids : pre[p].person[i].email <= resp[p].body[1].items[1].email

\* C18: a list request with limit outside 1..100 or offset below 0 fails with
\* a validation error on either surface, and a list request without limit and
\* offset is answered with limit 20 and offset 0.
C18_ListBoundsValidated ==
  \A p \in Procs :
    (Done(p) /\ req[p].op = "list")
    => /\ ~ValidQuery(req[p]) => OutcomeKind(resp[p].status) = "validation"
       /\ (HasBody(p) /\ req[p].limit = NoArg /\ req[p].offset = NoArg)
            => /\ resp[p].body[1].limit = DefaultLimit
               /\ resp[p].body[1].offset = DefaultOffset

\* The birthday's month and day come later in the year than today's.
NotYetThisYear(bday, today) ==
  bday.m > today.m \/ (bday.m = today.m /\ bday.d > today.d)

\* The age the contract gives: the year difference, one less when the
\* birthday has not come yet this year; no age outside 0..150 or without a
\* birthday.
WholeYears(bday, today) ==
  IF bday = NoDate THEN NullYears
  ELSE LET n == (today.y - bday.y) - (IF NotYetThisYear(bday, today) THEN 1 ELSE 0)
       IN IF n \in MinAge..MaxAge THEN Years(n) ELSE NullYears

\* C19: for every birthday and current date, the age either surface derives
\* is absent without a birthday, else the year difference less one when the
\* birthday's month/day is later than today's, and absent outside 0..150.
C19_AgeIsWholeYears ==
  /\ age.rest # NoYears => age.rest = WholeYears(age.bday, age.today)
  /\ age.gql # NoYears => age.gql = WholeYears(age.bday, age.today)

\* Both surfaces have derived 9 from a birthday ten years and all but one day
\* before the current date.
C19_Witness ==
  /\ age.bday # NoDate
  /\ age.today.y = age.bday.y + 10
  /\ age.today.m = age.bday.m /\ age.today.d + 1 = age.bday.d
  /\ age.rest = Years(9) /\ age.gql = Years(9)

\* The set of contacts a replacement asks for.
Target(r) == {<<r.id, c>> : c \in Range(r.contacts.ids)}

\* Two REST updates of one stored person, each carrying a contacts key and
\* nothing else, its contacts other persons stored when it arrived, were in
\* flight together and have both been answered.
ConcurrentReplaces(p, q) ==
  /\ Done(p) /\ Done(q)
  /\ req[p].surface = "rest" /\ req[q].surface = "rest"
  /\ req[p].op = "update" /\ req[q].op = "update"
  /\ req[p].id = req[q].id
  /\ HasContactsKey(req[p]) /\ HasContactsKey(req[q])
  /\ ~HasUpdates(req[p]) /\ ~HasUpdates(req[q])
  /\ Exists(pre[p], req[p].id) /\ Exists(pre[q], req[q].id)
  /\ \A c \in Range(req[p].contacts.ids) \cup Range(req[q].contacts.ids) :
       c # req[p].id /\ Exists(pre[p], c) /\ Exists(pre[q], c)
  /\ rid[q] \in conc[p]

\* C21: two concurrent REST updates that each replace the contacts of one
\* person both succeed, and the person's links are then the target set of one
\* of the two.
C21_ConcurrentReplacesBothSucceed ==
  \A p \in Procs : \A q \in Procs \ {p} :
    ConcurrentReplaces(p, q)
    => /\ Succeeded(p) /\ Succeeded(q)
       /\ Outgoing(links, req[p].id) \in {Target(req[p]), Target(req[q])}

\* GET /people/:id has answered 304 to the ETag it issued to client 1 for the
\* same person, whose own row is as it was then.
Revalidated(p) ==
  /\ Done(1) /\ resp[1].status = "200"
  /\ Done(p) /\ req[p].op = "get" /\ req[p].surface = "rest"
  /\ req[p].id = req[1].id
  /\ req[p].inm = resp[1].etag
  /\ resp[p].status = "304"
  /\ loc[p].prow = loc[1].prow

\* C22: when GET /people/:id answers 304 to an ETag it issued earlier for a
\* person, the body it would return otherwise, contacts included, is the body
\* it returned with that ETag, whatever was done to the person's contacts and
\* contact set in between.
C22_UnchangedMeansSameBody ==
  \A p \in Procs \ {1} :
    Revalidated(p)
    => ToDTO(req[p].id, loc[p].prow, loc[p].contacts) = resp[1].body[1]

\* C23: under any interleaving of concurrent requests a stored person keeps
\* its createdAt, its modifiedAt is never earlier than its createdAt, and its
\* modifiedAt never decreases: it is never below the modifiedAt that a
\* successful update of that person has already reported.
C23_TimestampsMonotone ==
  /\ \A i \in Ids : person[i].live => person[i].updated_at >= person[i].created_at
  /\ \A p \in Procs : \A i \in Ids :
       (Done(p) /\ Exists(pre[p], i) /\ person[i].live)
       => person[i].created_at = pre[p].person[i].created_at
  /\ \A p \in Procs :
       (/\ Succeeded(p) /\ req[p].op = "update" /\ HasUpdates(req[p])
        /\ Exists(Store(person, links), req[p].id))
       => GetTime(person[req[p].id].updated_at) >= resp[p].body[1].modified

\* The email request p tried to store is, or was when p arrived, the email of
\* a person other than the one p writes, or the email a request in flight
\* together with p tried to store.
EmailHeldByOther(p) ==
  /\ req[p].email \in Emails
  /\ \/ \E i \in Ids \ {req[p].id} :
          \/ person[i].live /\ person[i].email = req[p].email
          \/ pre[p].person[i].live /\ pre[p].person[i].email = req[p].email
     \/ \E q \in Others(p) : rid[q] \in conc[p] /\ req[q].email = req[p].email

\* C24: a REST create or update is answered with the conflict error only
\* when the email it tried to store is held by a different person; a duplicate
\* link key in particular is not answered with it.
C24_ConflictMeansEmailTaken ==
  \A p \in Procs :
    (/\ Done(p) /\ req[p].surface = "rest"
     /\ req[p].op \in {"create", "update"}
     /\ resp[p].status = "409")
    => EmailHeldByOther(p)

\* min(limit, max(0, total - offset))
Window(l, o, total) ==
  LET rest == IF total > o THEN total - o ELSE 0
  IN IF l < rest THEN l ELSE rest

\* C25: every list response holds min(limit, max(0, total - offset)) items
\* for the total it reports, also when a create or a delete commits between
\* its page query and its count query.
C25_ItemsMatchTotal ==
  \A p \in Procs :
    PageServed(p)
    => Len(resp[p].body[1].items)
         = Window(resp[p].body[1].limit, resp[p].body[1].offset, resp[p].body[1].total)

====
